---- MODULE Spec2Model ----
(***************************************************************************)
(* Model of upg.py: the upgrade pipeline (fetch, diff, merge, diff,        *)
(* set difference, checkout/add, report) and the subprocess runner `call`. *)
(* Every external git command is one step; its exit status and its output  *)
(* are chosen nondeterministically.  The git repository is modelled by the  *)
(* paths that differ from the source tag (localmods), the unmerged paths of *)
(* the index (unmerged) and the version of each working-tree file.          *)
(***************************************************************************)
EXTENDS Integers, Sequences, FiniteSets, TLC

\* ---------------------------------------------------------------- bounds
\* longest output (in lines) of the conflicted-paths query
MaxLines == 3
\* longest output (in lines) of the modified-paths query
MaxModLines == 2

Paths == {"a", "b", "c"}
Remotes == {"upstream"}
Tags == {"v1", "v2"}
\* exit statuses of a subprocess: 0, and 1 standing for any non-zero status
Statuses == {0, 1}

VARIABLES
    args,          \* the command line: remote, fro, to
    pc,            \* position of the run inside upgrade
    tag_i,         \* index of the for loop of fetch
    modified,      \* list returned by get_modified
    conflicted,    \* list returned by get_conflicted
    safe,          \* list returned by get_safe
    file_i,        \* index of the for loop of accept
    num_conflicted,\* argument of print_advice
    stdout,        \* lines printed
    stderr,        \* diagnostics written by sys.exit
    exit_code,     \* exit status of the program, -1 while it runs
    log,           \* the subprocesses spawned so far, with their statuses
    localmods,     \* git: paths that differ between HEAD and the source tag
    unmerged,      \* git: paths unmerged in the index
    worktree       \* git: version of each working-tree file

vars == <<args, pc, tag_i, modified, conflicted, safe, file_i, num_conflicted,
          stdout, stderr, exit_code, log, localmods, unmerged, worktree>>

\* ------------------------------------------------------- python builtins
\* set(l): the distinct elements of a list
set(l) == {l[k] : k \in DOMAIN l}

\* the lists without repetition that enumerate S
Orderings(S) ==
    {f \in [1..Cardinality(S) -> S] : \A x, y \in DOMAIN f : f[x] = f[y] => x = y}

\* list(S): a list of the elements of S, each once, in the set's iteration
\* order, which the program does not control: every order is possible
list(S) == Orderings(S)

\* the texts of at most n lines a git query listing the paths of S may print;
\* s.splitlines() of such a text
Lines(S, n) ==
    UNION {{l \in [1..m -> S] : set(l) = S} : m \in 0..n}

\* ------------------------------------------------------------- functions
\* get_safe: the set difference as a list (the possible results)
get_safe_nodiff(c, m) == list(set(c))
get_safe_filter(c, m) ==
    {SelectSeq(c, LAMBDA p : p \notin set(m))}
get_safe_inter(c, m) == list(set(c) \cap set(m))
get_safe(c, m) == list(set(c) \ set(m))

\* call: does the process exit on this status?
die_never(status, die_on_error) == FALSE
die_always(status, die_on_error) == status # 0
die(status, die_on_error) == status # 0 /\ die_on_error

\* call(cmd, die_on_error): runs cmd, which exits with status; the run goes on
\* at cont unless it dies
call(cmd, die_on_error, status, cont) ==
    /\ log' = Append(log, [cmd |-> cmd, die_on_error |-> die_on_error,
                           status |-> status])
    /\ IF die(status, die_on_error)
       THEN /\ pc' = "exited"
            /\ exit_code' = 1
            /\ stderr' = Append(stderr, [status |-> status, cmd |-> cmd])
       ELSE /\ pc' = cont
            /\ UNCHANGED <<exit_code, stderr>>

\* upgrade: the statement that follows each statement of its body
upgrade_merge_first(stmt) ==
    CASE stmt = "fetch" -> "merge"
      [] stmt = "merge" -> "get_modified"
      [] stmt = "get_modified" -> "get_conflicted"
      [] stmt = "get_conflicted" -> "get_safe"
      [] stmt = "get_safe" -> "accept"
      [] stmt = "accept" -> "print_advice"
      [] stmt = "print_advice" -> "done"
upgrade(stmt) ==
    CASE stmt = "fetch" -> "get_modified"
      [] stmt = "get_modified" -> "merge"
      [] stmt = "merge" -> "get_conflicted"
      [] stmt = "get_conflicted" -> "get_safe"
      [] stmt = "get_safe" -> "accept"
      [] stmt = "accept" -> "print_advice"
      [] stmt = "print_advice" -> "done"

\* the tags fetch loops over: [fro, to]
tags == <<args.fro, args.to>>

\* the commands
FetchTagsCmd == <<"git", "fetch", args.remote, "--tags">>
FetchCmd(tag) == <<"git", "fetch", args.remote, tag>>
DiffModifiedCmd == <<"git", "diff", args.fro, "--name-only">>
MergeCmd == <<"git", "merge", "--no-ff", args.to>>
DiffConflictedCmd == <<"git", "diff", "--name-only", "--diff-filter=U">>
CheckoutCmd(fil) == <<"git", "checkout", "--theirs", fil>>
AddCmd(fil) == <<"git", "add", fil>>

\* ------------------------------------------------------------------ Init
Init ==
    /\ args \in {a \in [remote : Remotes, fro : Tags, to : Tags] : a.fro # a.to}
    /\ pc = "fetch_tags"
    /\ tag_i = 1
    /\ modified = <<>>
    /\ conflicted = <<>>
    /\ safe = <<>>
    /\ file_i = 1
    /\ num_conflicted = 0
    /\ stdout = <<>>
    /\ stderr = <<>>
    /\ exit_code = -1
    /\ log = <<>>
    /\ localmods \in {m \in SUBSET Paths : Cardinality(m) <= MaxModLines}
    /\ unmerged = {}
    /\ worktree = [p \in Paths |-> "head"]

\* --------------------------------------------------------------- actions
\* fetch: git fetch remote --tags
FetchTags ==
    /\ pc = "fetch_tags"
    /\ \E status \in Statuses :
         call(FetchTagsCmd, TRUE, status, "fetch_tag")
    /\ UNCHANGED <<args, tag_i, modified, conflicted, safe, file_i,
                   num_conflicted, stdout, localmods, unmerged, worktree>>

\* fetch: one iteration of the loop over the tags
FetchTag ==
    /\ pc = "fetch_tag"
    /\ \E status \in Statuses :
         call(FetchCmd(tags[tag_i]), TRUE, status,
              IF tag_i < Len(tags) THEN "fetch_tag" ELSE upgrade("fetch"))
    /\ tag_i' = tag_i + 1
    /\ UNCHANGED <<args, modified, conflicted, safe, file_i,
                   num_conflicted, stdout, localmods, unmerged, worktree>>

\* get_modified: git diff fro --name-only, split into lines
GetModified ==
    /\ pc = "get_modified"
    /\ \E status \in Statuses :
         /\ call(DiffModifiedCmd, TRUE, status, upgrade("get_modified"))
         /\ IF die(status, TRUE)
            THEN UNCHANGED modified
            ELSE modified' \in Lines(localmods, MaxModLines)
    /\ UNCHANGED <<args, tag_i, conflicted, safe, file_i,
                   num_conflicted, stdout, localmods, unmerged, worktree>>

\* merge: git merge --no-ff to; a clean merge exits 0, a merge that stops
\* exits non-zero and leaves the paths u unmerged; the files w are rewritten:
\* the unmerged ones only, or all of them
Merge ==
    /\ pc = "merge"
    /\ \E status \in Statuses, u \in SUBSET Paths, w \in SUBSET Paths :
         /\ status = 0 => u = {}
         /\ w \in {u, Paths}
         /\ Cardinality(u) <= MaxLines
         /\ call(MergeCmd, FALSE, status, upgrade("merge"))
         /\ unmerged' = u
         /\ worktree' = [p \in Paths |->
                           IF p \in w THEN "merged" ELSE worktree[p]]
    /\ UNCHANGED <<args, tag_i, modified, conflicted, safe, file_i,
                   num_conflicted, stdout, localmods>>

\* get_conflicted: git diff --name-only --diff-filter=U, split into lines
GetConflicted ==
    /\ pc = "get_conflicted"
    /\ \E status \in Statuses :
         /\ call(DiffConflictedCmd, TRUE, status, upgrade("get_conflicted"))
         /\ IF die(status, TRUE)
            THEN UNCHANGED conflicted
            ELSE conflicted' \in Lines(unmerged, MaxLines)
    /\ UNCHANGED <<args, tag_i, modified, safe, file_i,
                   num_conflicted, stdout, localmods, unmerged, worktree>>

\* safe = get_safe(conflicted, modified)
GetSafe ==
    /\ pc = "get_safe"
    /\ safe' \in get_safe(conflicted, modified)
    /\ pc' = upgrade("get_safe")
    /\ UNCHANGED <<args, tag_i, modified, conflicted, file_i, num_conflicted,
                   stdout, stderr, exit_code, log, localmods, unmerged,
                   worktree>>

\* accept: git checkout --theirs fil
Checkout_continue ==
    /\ pc = "accept"
    /\ file_i <= Len(safe)
    /\ \E status \in Statuses :
         /\ call(CheckoutCmd(safe[file_i]), FALSE, status,
                 IF status # 0 THEN "accept" ELSE "add")
         /\ file_i' = IF status # 0 THEN file_i + 1 ELSE file_i
         /\ IF status # 0
            THEN UNCHANGED worktree
            ELSE worktree' = [worktree EXCEPT ![safe[file_i]] = "theirs"]
    /\ UNCHANGED <<args, tag_i, modified, conflicted, safe,
                   num_conflicted, stdout, localmods, unmerged>>
Checkout ==
    /\ pc = "accept"
    /\ file_i <= Len(safe)
    /\ \E status \in Statuses :
         /\ call(CheckoutCmd(safe[file_i]), FALSE, status, "add")
         /\ IF status # 0
            THEN UNCHANGED worktree
            ELSE worktree' = [worktree EXCEPT ![safe[file_i]] = "theirs"]
    /\ UNCHANGED <<args, tag_i, modified, conflicted, safe, file_i,
                   num_conflicted, stdout, localmods, unmerged>>

\* accept: git add fil, which ends the iteration
Add ==
    /\ pc = "add"
    /\ \E status \in Statuses :
         /\ call(AddCmd(safe[file_i]), FALSE, status, "accept")
         /\ IF status # 0
            THEN UNCHANGED unmerged
            ELSE unmerged' = unmerged \ {safe[file_i]}
    /\ file_i' = file_i + 1
    /\ UNCHANGED <<args, tag_i, modified, conflicted, safe,
                   num_conflicted, stdout, localmods, worktree>>

\* accept returns; upgrade computes len(conflicted) - len(safe)
AcceptReturn ==
    /\ pc = "accept"
    /\ file_i > Len(safe)
    /\ num_conflicted' = Len(conflicted) - Len(safe)
    /\ pc' = upgrade("accept")
    /\ UNCHANGED <<args, tag_i, modified, conflicted, safe, file_i,
                   stdout, stderr, exit_code, log, localmods, unmerged,
                   worktree>>

\* print_advice, then the program ends normally
PrintAdvice_exit_count ==
    /\ pc = "print_advice"
    /\ stdout' = stdout \o
         << "Completed with {0} conflicts",
            IF num_conflicted # 0
            THEN "Use 'git mergetool' to resolve, then 'git commit'"
            ELSE "Safe to 'git commit'",
            "Or use 'git merge --abort' to pretend this never happened" >>
    /\ pc' = upgrade("print_advice")
    /\ exit_code' = IF num_conflicted # 0 THEN 1 ELSE 0
    /\ UNCHANGED <<args, tag_i, modified, conflicted, safe, file_i,
                   num_conflicted, stderr, log, localmods, unmerged,
                   worktree>>
PrintAdvice ==
    /\ pc = "print_advice"
    /\ stdout' = stdout \o
         << "Completed with {0} conflicts",
            IF num_conflicted # 0
            THEN "Use 'git mergetool' to resolve, then 'git commit'"
            ELSE "Safe to 'git commit'",
            "Or use 'git merge --abort' to pretend this never happened" >>
    /\ pc' = upgrade("print_advice")
    /\ exit_code' = 0
    /\ UNCHANGED <<args, tag_i, modified, conflicted, safe, file_i,
                   num_conflicted, stderr, log, localmods, unmerged,
                   worktree>>

Next ==
    \/ FetchTags
    \/ FetchTag
    \/ GetModified
    \/ Merge
    \/ GetConflicted
    \/ GetSafe
    \/ Checkout
    \/ Add
    \/ AcceptReturn
    \/ PrintAdvice

Spec == Init /\ [][Next]_vars

\* every subprocess terminates and the interpreter goes on to the next
\* statement
FairSpec == Spec /\ WF_vars(Next)

TypeOK ==
    /\ pc \in {"fetch_tags", "fetch_tag", "get_modified", "merge",
               "get_conflicted", "get_safe", "accept", "add", "print_advice",
               "done", "exited"}
    /\ exit_code \in {-1, 0, 1}
    /\ unmerged \subseteq Paths

\* ------------------------------------------------------------ vocabulary
\* the states of the run
State ==
    CASE pc \in {"fetch_tags", "fetch_tag"} -> "START"
      [] pc \in {"get_modified", "merge"} -> "FETCHED"
      [] pc \in {"get_conflicted", "get_safe"} -> "MERGE_ATTEMPTED"
      [] pc \in {"accept", "add"} -> "CLASSIFIED"
      [] pc = "print_advice" -> "RESOLVED"
      [] pc = "done" -> "REPORTED"
      [] pc = "exited" -> "ABORTED"

StateOrder ==
    <<"START", "FETCHED", "MERGE_ATTEMPTED", "CLASSIFIED", "RESOLVED",
      "REPORTED">>
Rank(s) == CHOOSE k \in DOMAIN StateOrder : StateOrder[k] = s

Classified == pc \in {"accept", "add", "print_advice", "done"}
Resolved == pc \in {"print_advice", "done"}

SafeSet == set(conflicted) \ set(modified)

IsFetch(cmd) == cmd[2] = "fetch"
IsAccept(cmd) == cmd[2] \in {"checkout", "add"}
PathOf(cmd) == cmd[Len(cmd)]

\* a fail-fast command exited non-zero
FatalFailure ==
    \E k \in DOMAIN log : log[k].die_on_error /\ log[k].status # 0

\* a tolerated command exited non-zero
ToleratedFailure ==
    \E k \in DOMAIN log : ~log[k].die_on_error /\ log[k].status # 0

NoDuplicates(l) == \A x, y \in DOMAIN l : l[x] = l[y] => x = y

Printed(line) == \E k \in DOMAIN stdout : stdout[k] = line

\* ---------------------------------------------------------------- claims
\* C1: the result of get_safe(C, M) holds exactly the paths that are in C
\* and not in M; it is a subset of C and shares no path with M.
C1_GetSafeIsDifference ==
    Classified =>
        /\ set(safe) \subseteq set(conflicted)
        /\ set(safe) \cap set(modified) = {}
        /\ \A p \in Paths :
             p \in set(safe) <=> (p \in set(conflicted) /\ p \notin set(modified))

C1_Witness ==
    /\ Classified
    /\ set(safe) # {}
    /\ set(conflicted) \cap set(modified) # {}
    /\ set(modified) \ set(conflicted) # {}

\* C2: checkout --theirs and add are issued only for paths reported conflicted
\* after the merge and not in the modified set, and once accept has returned
\* every such path has been given both commands.
C2_OnlySafeAccepted ==
    /\ \A k \in DOMAIN log :
         IsAccept(log[k].cmd) =>
            /\ PathOf(log[k].cmd) \in set(conflicted)
            /\ PathOf(log[k].cmd) \notin set(modified)
            /\ PathOf(log[k].cmd) \notin localmods
    /\ Resolved =>
         \A p \in SafeSet :
            /\ \E k \in DOMAIN log : log[k].cmd = CheckoutCmd(p)
            /\ \E k \in DOMAIN log : log[k].cmd = AddCmd(p)

C2_Witness ==
    /\ Resolved
    /\ Cardinality(SafeSet) >= 2
    /\ set(conflicted) \cap set(modified) # {}
    /\ \E k \in DOMAIN log : IsAccept(log[k].cmd)

\* C3: when a fetch command exits non-zero the run has exited with an error
\* at that command: only fetch commands were issued (no merge, diff, checkout
\* or add), nothing is printed and the working tree and index are untouched.
C3_FetchFailureIsFatal ==
    \A k \in DOMAIN log :
        (IsFetch(log[k].cmd) /\ log[k].status # 0) =>
            /\ pc = "exited"
            /\ exit_code # 0
            /\ exit_code # -1
            /\ k = Len(log)
            /\ \A j \in DOMAIN log : IsFetch(log[j].cmd)
            /\ stdout = <<>>
            /\ stderr # <<>>
            /\ unmerged = {}
            /\ \A p \in Paths : worktree[p] = "head"

C3_Witness ==
    /\ pc = "exited"
    /\ Len(log) = 3
    /\ log[3].cmd = FetchCmd(args.to)
    /\ log[3].status # 0

\* C4: the program exits non-zero exactly when a fail-fast command exited
\* non-zero; that command is then the last one run and no report is printed;
\* otherwise the program exits 0 after the report.
C4_ExitStatus ==
    /\ FatalFailure <=> pc = "exited"
    /\ pc = "exited" =>
         /\ exit_code = 1
         /\ log[Len(log)].die_on_error /\ log[Len(log)].status # 0
         /\ \A k \in 1..(Len(log) - 1) :
              ~(log[k].die_on_error /\ log[k].status # 0)
         /\ stdout = <<>>
         /\ Len(stderr) = 1
    /\ pc = "done" =>
         /\ exit_code = 0
         /\ ~FatalFailure
         /\ Len(stdout) = 3
         /\ stderr = <<>>
    /\ pc \notin {"exited", "done"} => exit_code = -1 /\ stdout = <<>>

C4_Witness ==
    /\ pc = "done"
    /\ exit_code = 0
    /\ num_conflicted > 0
    /\ ToleratedFailure

\* C5: every run ends in REPORTED unless a fail-fast command (a fetch or one
\* of the two diff queries) exited non-zero, whatever the statuses of the
\* merge, checkout and add commands.
C5_ReachesReported == <>(pc = "done" \/ FatalFailure)

C5_Witness ==
    /\ pc = "done"
    /\ ~FatalFailure
    /\ \E k \in DOMAIN log : log[k].cmd = MergeCmd /\ log[k].status # 0
    /\ \E k \in DOMAIN log : log[k].cmd[2] = "checkout" /\ log[k].status # 0
    /\ \E k \in DOMAIN log : log[k].cmd[2] = "add" /\ log[k].status # 0

\* C6 (as stated): the reported number is the number of distinct conflicted
\* paths that are also modified, whatever lines the conflict query repeats;
\* the mergetool advice is printed exactly when it is positive and the commit
\* advice exactly when it is 0.
C6_ReportCountsDistinctPaths ==
    pc = "done" =>
        /\ num_conflicted = Cardinality(set(conflicted)) - Cardinality(set(safe))
        /\ num_conflicted = Cardinality(set(conflicted) \cap set(modified))
        /\ Printed("Use 'git mergetool' to resolve, then 'git commit'")
              <=> num_conflicted > 0
        /\ Printed("Safe to 'git commit'") <=> num_conflicted = 0

\* C7: the run goes START, FETCHED, MERGE_ATTEMPTED, CLASSIFIED, RESOLVED,
\* REPORTED one state at a time, leaving the sequence only by an abort; the
\* commands are issued in the order fetch tags, fetch source, fetch target,
\* modified diff, merge, conflicted diff, checkout/add per safe path, and the
\* report comes last; the modified list is captured before the merge touches
\* the working tree and the conflicted list after it.
ExpectedCmds ==
    <<FetchTagsCmd, FetchCmd(args.fro), FetchCmd(args.to), DiffModifiedCmd,
      MergeCmd, DiffConflictedCmd>>

AcceptCmds ==
    [k \in 1..(2 * Len(safe)) |->
        IF k % 2 = 1 THEN CheckoutCmd(safe[(k + 1) \div 2])
        ELSE AddCmd(safe[k \div 2])]

C7_StepOk ==
    /\ State \in {"REPORTED", "ABORTED"} => State' = State
    /\ State' # State =>
         \/ State' = "ABORTED"
         \/ Rank(State') = Rank(State) + 1

C7_OrderOk ==
    /\ Len(log) <= Len(ExpectedCmds \o AcceptCmds)
    /\ \A k \in DOMAIN log : log[k].cmd = (ExpectedCmds \o AcceptCmds)[k]
    /\ State = "START" => Len(log) < 3
    /\ State = "FETCHED" => Len(log) \in {3, 4}
    /\ State = "MERGE_ATTEMPTED" => Len(log) \in {5, 6}
    /\ State = "CLASSIFIED" => Len(log) >= 6
    /\ State \in {"RESOLVED", "REPORTED"} => Len(log) = 6 + 2 * Len(safe)
    /\ stdout # <<>> => State = "REPORTED"
    /\ Len(log) < 4 => modified = <<>>
    /\ Len(log) < 5 => unmerged = {} /\ \A p \in Paths : worktree[p] = "head"
    /\ Len(log) < 6 => conflicted = <<>>
    /\ Len(log) < 6 => safe = <<>>

C7_PipelineOrder == [][C7_StepOk]_vars /\ []C7_OrderOk

C7_Witness ==
    /\ pc = "done"
    /\ Len(safe) >= 2
    /\ modified # <<>>
    /\ \E p \in Paths : worktree[p] = "theirs"

\* C8: get_safe does not depend on the order or on repeated entries of either
\* input, its result has each path once, it is empty for an empty C, it has
\* exactly the distinct paths of C for an empty M, and applied to its own
\* result with the same M it returns the same paths.
C8_GetSafeAlgebra ==
    (pc = "accept" /\ file_i = 1) =>
        /\ \A c2 \in Lines(set(conflicted), MaxLines) :
             safe \in get_safe(c2, modified)
        /\ \A m2 \in Lines(set(modified), MaxModLines) :
             safe \in get_safe(conflicted, m2)
        /\ NoDuplicates(safe)
        /\ conflicted = <<>> => safe = <<>>
        /\ modified = <<>> =>
             set(safe) = set(conflicted) /\ Len(safe) = Cardinality(set(conflicted))
        /\ \A r \in get_safe(safe, modified) : set(r) = set(safe)
        /\ get_safe(safe, modified) = get_safe(conflicted, modified)

C8_Witness ==
    /\ pc = "accept" /\ file_i = 1
    /\ Len(conflicted) > Cardinality(set(conflicted))
    /\ Len(modified) > Cardinality(set(modified))
    /\ Len(safe) >= 1

\* C9: accept gives every safe path one checkout immediately followed by the
\* add of the same path, in turn, whatever the statuses of the checkouts and
\* adds before; no such status ends the run.
C9_AcceptEachOnce ==
    /\ Classified =>
         /\ Len(log) = 6 + 2 * (file_i - 1) + (IF pc = "add" THEN 1 ELSE 0)
         /\ \A k \in 1..(file_i - 1) :
              /\ log[6 + 2 * k - 1].cmd = CheckoutCmd(safe[k])
              /\ log[6 + 2 * k].cmd = AddCmd(safe[k])
         /\ pc = "add" => log[Len(log)].cmd = CheckoutCmd(safe[file_i])
    /\ Resolved =>
         /\ file_i = Len(safe) + 1
         /\ \A p \in SafeSet :
              /\ Cardinality({k \in DOMAIN log : log[k].cmd = CheckoutCmd(p)}) = 1
              /\ Cardinality({k \in DOMAIN log : log[k].cmd = AddCmd(p)}) = 1
         /\ Cardinality({k \in DOMAIN log : IsAccept(log[k].cmd)})
              = 2 * Cardinality(SafeSet)
    /\ pc = "exited" => \A k \in DOMAIN log : ~IsAccept(log[k].cmd)

C9_Witness ==
    /\ Resolved
    /\ Len(safe) >= 2
    /\ log[7].status # 0
    /\ log[8].status # 0
    /\ log[9].status = 0

\* C10 (as stated): the reported count is fixed by the conflicted and safe
\* sets captured before resolution; it is smaller than the number of paths
\* still conflicted at the end when a safe path was left conflicted, and
\* equal to it when every checkout and add succeeded.
C10_ReportVersusResidual ==
    pc = "done" =>
        /\ num_conflicted = Len(conflicted) - Len(safe)
        /\ (SafeSet \cap unmerged # {}) => num_conflicted < Cardinality(unmerged)
        /\ (\A k \in DOMAIN log : IsAccept(log[k].cmd) => log[k].status = 0)
              => num_conflicted = Cardinality(unmerged)
====
